---- MODULE Spec2Model ----
(***************************************************************************)
(* Model of hearthstone_stars.py: the star map built by build_star_map     *)
(* (one step per pass of its loops), the game loop of climb_to_legend and  *)
(* the coin of play_game, and the runs of simulate.                        *)
(*                                                                         *)
(* The OrderedDict is a sequence of <<key, value>> pairs in insertion      *)
(* order.  win_rate and the random draw are counted in tenths: the draw    *)
(* of random.random() lies in [0, 1), i.e. in 0..9 tenths.                 *)
(***************************************************************************)
EXTENDS Integers, Sequences, FiniteSets

VARIABLES
    win_rate,               \* parameter, in tenths
    start_stars,            \* parameter
    no_streaks_above_rank,  \* parameter
    rank_floors,            \* parameter, a tuple of ranks
    d,                      \* build_star_map: the OrderedDict being built
    num_stars,              \* build_star_map: last key laid down
    stars_per_rank,         \* build_star_map: current width
    rank_idx,               \* build_star_map: position of the for loop in ranks
    fill_left,              \* build_star_map: passes of the xrange loop to go
    star_map,               \* local: the OrderedDict, <<>> before line 67
    star_rank_floors,       \* local: list of floor star-counts
    no_streaks_above,       \* local: streak-threshold star-count
    legend,                 \* local: last key of star_map
    current_stars,          \* local
    wins_in_row,            \* local
    games,                  \* local
    pc,                     \* "start" (call entered), "rank" and "fill"
                            \* (build_star_map), "loop", "done" (returned);
                            \* in simulate: "simulate", "averaged"
    prev_stars,             \* history: current_stars before the last game
    outcome,                \* history: "none", "win" or "loss" of the last game
    lost,                   \* history: number of games lost so far
    won,                    \* history: number of games won so far
    last_loss,              \* history: value of games at the last loss
    caller,                 \* "direct" or "simulate"
    n,                      \* simulate: parameter
    run,                    \* simulate: position of the xrange generator
    counts,                 \* simulate: the values handed to statistics.mean
    average                 \* simulate: the mean, [num, den]

vars == <<win_rate, start_stars, no_streaks_above_rank, rank_floors,
          d, num_stars, stars_per_rank, rank_idx, fill_left, star_map,
          star_rank_floors, no_streaks_above, legend, current_stars,
          wins_in_row, games, pc, prev_stars, outcome, lost, won, last_loss,
          caller, n, run, counts, average>>

params == <<win_rate, start_stars, no_streaks_above_rank, rank_floors>>

builder == <<d, num_stars, stars_per_rank, rank_idx, fill_left>>

resolved == <<star_map, star_rank_floors, no_streaks_above, legend>>

locals == <<current_stars, wins_in_row, games, prev_stars, outcome, lost,
            won, last_loss>>

sim == <<caller, n, run, counts, average>>

-----------------------------------------------------------------------------
(* Bounds of the exploration and program constants *)

\* a run whose win rate lets both outcomes happen is explored for at most
\* this many losses; the all-loss and all-win runs are explored in full
MaxLosses == 2

GameCap == 5000

FirstRank == 25

InitialStarsPerRank == 2

StreakLength == 3

DEFAULT_RANK_FLOORS == <<25, 20, 15, 10, 5>>

DEFAULT_NO_STREAKS_ABOVE_RANK == 5

DEFAULT_START_STARS == 0

\* the input values explored
WinRates == {0, 5, 10}

StartStars == {-1, 0, 12, 70, 96}

StreakRanks == {DEFAULT_NO_STREAKS_ABOVE_RANK, 15}

FloorTuples == {DEFAULT_RANK_FLOORS, <<20, 10>>}

Draws == 0..9

-----------------------------------------------------------------------------
(* OrderedDict *)

Keys(dict) == [i \in 1..Len(dict) |-> dict[i][1]]

KeySet(dict) == {dict[i][1] : i \in 1..Len(dict)}

Lookup(dict, k) == dict[CHOOSE i \in 1..Len(dict) : dict[i][1] = k][2]

\* d[k] = v: an existing key keeps its position, a new key goes last
SetItem(dict, k, v) ==
    IF k \in KeySet(dict)
    THEN [i \in 1..Len(dict) |-> IF dict[i][1] = k THEN <<k, v>> ELSE dict[i]]
    ELSE Append(dict, <<k, v>>)

\* variant: max in place of min
SetMax(S) == CHOOSE m \in S : \A x \in S : m >= x

SetMin(S) == CHOOSE m \in S : \A x \in S : m <= x

\* min(k for k, v in d.items() if v == rank)
MinKeyOfRank(dict, rank) == SetMin({dict[i][1] : i \in {j \in 1..Len(dict) : dict[j][2] = rank}})

-----------------------------------------------------------------------------
(* build_star_map *)

\* variant: the list is not reversed
ranksAscending == [i \in 1..FirstRank |-> i]

\* variant: range(0, 26) reversed
ranksFromZero == [i \in 1..FirstRank + 1 |-> FirstRank + 1 - i]

\* range(1, 26) reversed
ranks == [i \in 1..FirstRank |-> FirstRank + 1 - i]

\* variant: every rank divisible by 5
BumpRanksEveryFifth == {25, 20, 15, 10, 5}

BumpRanks == {20, 15, 10}

\* variant: = 1 in place of += 1
BumpedWidthAssign(current_rank, width) ==
    IF current_rank \in BumpRanks THEN 1 ELSE width

\* if current_rank in [20, 15, 10]: stars_per_rank += 1
BumpedWidth(current_rank, width) ==
    IF current_rank \in BumpRanks THEN width + 1 ELSE width

\* d[num_stars+1] = 0
LegendEntry(dict, last) == SetItem(dict, last + 1, 0)

-----------------------------------------------------------------------------
(* play_game and climb_to_legend *)

\* variant: a win rate outside [0, 1] is refused
play_game_validated(rate, draw) == rate \in 0..10 /\ draw < rate

\* variant: the comparison is turned round
play_game_inverted(rate, draw) == draw >= rate

\* variant: a draw equal to the win rate also wins
play_game_le(rate, draw) == draw <= rate

play_game(rate, draw) == draw < rate

ResolveFloors(dict, floors) == [i \in 1..Len(floors) |-> MinKeyOfRank(dict, floors[i])]

LastKey(dict) == Keys(dict)[Len(dict)]

InList(x, l) == \E i \in 1..Len(l) : l[i] = x

\* variant: the loop goes on at the legend key
LoopCondPastLegend == current_stars <= legend /\ games < GameCap

\* variant: the cap test lets one more game through
LoopCondInclusive == current_stars < legend /\ games <= GameCap

LoopCond == current_stars < legend /\ games < GameCap

\* variant: the bonus starts with the second win in a row
WinStarsEarlyStreak(stars, streak, threshold) ==
    IF streak >= StreakLength - 1 /\ stars < threshold
    THEN stars + 2 ELSE stars + 1

\* variant: the bonus is given at every star count
WinStarsNoThreshold(stars, streak, threshold) ==
    IF streak >= StreakLength THEN stars + 2 ELSE stars + 1

\* variant: no streak bonus
WinStarsNoBonus(stars, streak, threshold) == stars + 1

\* variant: the bonus starts with the fourth win in a row
WinStarsLateStreak(stars, streak, threshold) ==
    IF streak > StreakLength /\ stars < threshold THEN stars + 2 ELSE stars + 1

WinStars(stars, streak, threshold) ==
    IF streak >= StreakLength /\ stars < threshold THEN stars + 2 ELSE stars + 1

\* variant: the floor test looks at the star count after the loss
LossStarsAfter(stars, floors) ==
    IF ~InList(stars - 1, floors) THEN stars - 1 ELSE stars

\* variant: the star count never goes below zero
LossStarsNonNegative(stars, floors) ==
    IF InList(stars, floors) \/ stars <= 0 THEN stars ELSE stars - 1

\* variant: the floors act as a minimum clamp
LossStarsClamp(stars, floors) ==
    IF InList(stars, floors) \/ \A i \in 1..Len(floors) : stars < floors[i]
    THEN stars ELSE stars - 1

LossStars(stars, floors) ==
    IF ~InList(stars, floors) THEN stars - 1 ELSE stars

\* the locals before the first statement of climb_to_legend
InitLocals ==
    /\ d = <<>>
    /\ num_stars = 0
    /\ stars_per_rank = 0
    /\ rank_idx = 0
    /\ fill_left = 0
    /\ star_map = <<>>
    /\ star_rank_floors = <<>>
    /\ no_streaks_above = 0
    /\ legend = 0
    /\ current_stars = 0
    /\ wins_in_row = 0
    /\ games = 0
    /\ prev_stars = 0
    /\ outcome = "none"
    /\ lost = 0
    /\ won = 0
    /\ last_loss = 0
    /\ run = 0
    /\ counts = <<>>
    /\ average = [num |-> 0, den |-> 0]

\* climb_to_legend is called directly
Init ==
    /\ win_rate \in WinRates
    /\ start_stars \in StartStars
    /\ no_streaks_above_rank \in StreakRanks
    /\ rank_floors \in FloorTuples
    /\ InitLocals
    /\ pc = "start"
    /\ caller = "direct"
    /\ n = 0

\* build_star_map is called: the statements before its for loop
BuildStart ==
    /\ pc = "start"
    /\ d' = SetItem(<<>>, 0, FirstRank)
    /\ num_stars' = 0
    /\ stars_per_rank' = InitialStarsPerRank
    /\ rank_idx' = 1
    /\ pc' = "rank"
    /\ UNCHANGED <<params, fill_left, resolved, locals, sim>>

\* a pass of the for loop over ranks begins: the width for current_rank
BuildRank ==
    /\ pc = "rank"
    /\ rank_idx <= Len(ranks)
    /\ stars_per_rank' = BumpedWidth(ranks[rank_idx], stars_per_rank)
    /\ fill_left' = stars_per_rank'
    /\ IF fill_left' > 0
       THEN pc' = "fill" /\ rank_idx' = rank_idx
       ELSE pc' = "rank" /\ rank_idx' = rank_idx + 1
    /\ UNCHANGED <<params, d, num_stars, resolved, locals, sim>>

\* one pass of the xrange loop: num_stars += 1; d[num_stars] = current_rank
BuildKey ==
    /\ pc = "fill"
    /\ num_stars' = num_stars + 1
    /\ d' = SetItem(d, num_stars', ranks[rank_idx])
    /\ fill_left' = fill_left - 1
    /\ IF fill_left' > 0
       THEN pc' = "fill" /\ rank_idx' = rank_idx
       ELSE pc' = "rank" /\ rank_idx' = rank_idx + 1
    /\ UNCHANGED <<params, stars_per_rank, resolved, locals, sim>>

\* build_star_map lays down the Legend key and returns; climb_to_legend
\* resolves the floors, the threshold and the legend key
Setup ==
    /\ pc = "rank"
    /\ rank_idx > Len(ranks)
    /\ star_map' = LegendEntry(d, num_stars)
    /\ current_stars' = start_stars
    /\ star_rank_floors' = ResolveFloors(star_map', rank_floors)
    /\ no_streaks_above' = MinKeyOfRank(star_map', no_streaks_above_rank)
    /\ wins_in_row' = 0
    /\ games' = 0
    /\ legend' = LastKey(star_map')
    /\ pc' = "loop"
    /\ prev_stars' = start_stars
    /\ outcome' = "none"
    /\ lost' = 0
    /\ won' = 0
    /\ last_loss' = 0
    /\ UNCHANGED <<params, builder, sim>>

\* the outcomes random.random() can produce for this win rate
Outcomes(rate) == {play_game(rate, draw) : draw \in Draws}

\* both outcomes can happen with this win rate
Mixed == Outcomes(win_rate) = {TRUE, FALSE}

\* one pass of the while loop in which the game is won
Win ==
    /\ pc = "loop"
    /\ LoopCond
    /\ TRUE \in Outcomes(win_rate)
    /\ games' = games + 1
    /\ wins_in_row' = wins_in_row + 1
    /\ current_stars' = WinStars(current_stars, wins_in_row', no_streaks_above)
    /\ prev_stars' = current_stars
    /\ outcome' = "win"
    /\ won' = won + 1
    /\ UNCHANGED <<params, builder, resolved, pc, lost, last_loss, sim>>

\* variant: the game is counted only when it costs a star
LossUncounted ==
    /\ pc = "loop"
    /\ LoopCond
    /\ FALSE \in Outcomes(win_rate)
    /\ Mixed => lost < MaxLosses
    /\ games' = IF InList(current_stars, star_rank_floors)
                THEN games ELSE games + 1
    /\ wins_in_row' = 0
    /\ current_stars' = LossStars(current_stars, star_rank_floors)
    /\ prev_stars' = current_stars
    /\ outcome' = "loss"
    /\ lost' = lost + 1
    /\ last_loss' = games'
    /\ UNCHANGED <<params, builder, resolved, pc, won, sim>>

\* variant: the streak is reset only when the loss costs a star
LossKeepsStreak ==
    /\ pc = "loop"
    /\ LoopCond
    /\ FALSE \in Outcomes(win_rate)
    /\ Mixed => lost < MaxLosses
    /\ games' = games + 1
    /\ wins_in_row' = IF InList(current_stars, star_rank_floors)
                      THEN wins_in_row ELSE 0
    /\ current_stars' = LossStars(current_stars, star_rank_floors)
    /\ prev_stars' = current_stars
    /\ outcome' = "loss"
    /\ lost' = lost + 1
    /\ last_loss' = games'
    /\ UNCHANGED <<params, builder, resolved, pc, won, sim>>

\* one pass of the while loop in which the game is lost
Loss ==
    /\ pc = "loop"
    /\ LoopCond
    /\ FALSE \in Outcomes(win_rate)
    /\ Mixed => lost < MaxLosses
    /\ games' = games + 1
    /\ wins_in_row' = 0
    /\ current_stars' = LossStars(current_stars, star_rank_floors)
    /\ prev_stars' = current_stars
    /\ outcome' = "loss"
    /\ lost' = lost + 1
    /\ last_loss' = games'
    /\ UNCHANGED <<params, builder, resolved, pc, won, sim>>

\* the loop condition fails: return games
Return ==
    /\ pc = "loop"
    /\ ~LoopCond
    /\ pc' = "done"
    /\ UNCHANGED <<params, builder, resolved, locals, sim>>

Next == BuildStart \/ BuildRank \/ BuildKey \/ Setup \/ Win \/ Loss \/ Return

Spec == Init /\ [][Next]_vars

FairSpec == Spec /\ WF_vars(Next)

\* the call climb_to_legend(0.5): default parameters, both outcomes happen
InitDefault ==
    /\ Init
    /\ win_rate = 5
    /\ start_stars = DEFAULT_START_STARS
    /\ no_streaks_above_rank = DEFAULT_NO_STREAKS_ABOVE_RANK
    /\ rank_floors = DEFAULT_RANK_FLOORS

SpecDefault == InitDefault /\ [][Next]_vars

\* win rates inside and outside [0, 1]
WideWinRates == {-5, 0, 5, 10, 15}

\* the call climb_to_legend(win_rate) with any of these win rates
InitRates ==
    /\ win_rate \in WideWinRates
    /\ start_stars = DEFAULT_START_STARS
    /\ no_streaks_above_rank = DEFAULT_NO_STREAKS_ABOVE_RANK
    /\ rank_floors = DEFAULT_RANK_FLOORS
    /\ InitLocals
    /\ pc = "start"
    /\ caller = "direct"
    /\ n = 0

SpecRates == InitRates /\ [][Next]_vars

\* starts below the lowest floor, at the legend key and above it
EdgeStartStars == {-1, 96, 97}

InitEdge ==
    /\ win_rate \in WinRates
    /\ start_stars \in EdgeStartStars
    /\ no_streaks_above_rank = DEFAULT_NO_STREAKS_ABOVE_RANK
    /\ rank_floors = DEFAULT_RANK_FLOORS
    /\ InitLocals
    /\ pc = "start"
    /\ caller = "direct"
    /\ n = 0

SpecEdge == InitEdge /\ [][Next]_vars

-----------------------------------------------------------------------------
(* simulate *)

\* the runs explored in one call of simulate
MaxRuns == 2

\* a start two stars short of Legend keeps the runs of simulate short
SimStartStars == {94}

\* variant: one pass too many
xrangeInclusive(count) == 0..count

xrange(count) == 0..(count - 1)

RECURSIVE SeqSum(_)
SeqSum(values) ==
    IF values = <<>> THEN 0 ELSE values[1] + SeqSum(Tail(values))

\* statistics.mean: the sum over the number of values, as a fraction
Mean(values) == [num |-> SeqSum(values), den |-> Len(values)]

InitSim ==
    /\ win_rate \in WinRates
    /\ start_stars \in SimStartStars
    /\ no_streaks_above_rank = DEFAULT_NO_STREAKS_ABOVE_RANK
    /\ rank_floors = DEFAULT_RANK_FLOORS
    /\ InitLocals
    /\ pc = "simulate"
    /\ caller = "simulate"
    /\ n \in 1..MaxRuns

\* the generator is asked for its next value: another call of
\* climb_to_legend, or the generator is exhausted and the mean is returned
SimStep ==
    /\ pc = "simulate"
    /\ IF run \in xrange(n)
       THEN pc' = "start" /\ average' = average
       ELSE pc' = "averaged" /\ average' = Mean(counts)
    /\ UNCHANGED <<params, builder, resolved, locals, caller, n, run, counts>>

\* climb_to_legend has returned games to the generator
Collect ==
    /\ pc = "done"
    /\ caller = "simulate"
    /\ counts' = Append(counts, games)
    /\ run' = run + 1
    /\ pc' = "simulate"
    /\ UNCHANGED <<params, builder, resolved, locals, caller, n, average>>

NextSim == Next \/ SimStep \/ Collect

SpecSim == InitSim /\ [][NextSim]_vars

-----------------------------------------------------------------------------
(* Properties *)

Defaults ==
    /\ start_stars = DEFAULT_START_STARS
    /\ no_streaks_above_rank = DEFAULT_NO_STREAKS_ABOVE_RANK
    /\ rank_floors = DEFAULT_RANK_FLOORS

\* the step is a pass of the loop in which the game is lost / won
LossStep == games' = games + 1 /\ wins_in_row' = 0

WinStep == games' = games + 1 /\ wins_in_row' = wins_in_row + 1

\* C1: once current_stars is at or above the floor star-count of a rank of
\* rank_floors, no later step of the run takes it below that star-count.
C1_FloorsHold ==
    [][\A i \in 1..Len(star_rank_floors) :
          current_stars >= star_rank_floors[i]
              => current_stars' >= star_rank_floors[i]]_vars

\* from 0 seven wins lead to 12 (the last from 10, over the floor 11), then
\* two losses: 12 -> 11 -> 11
C1_Witness ==
    /\ Defaults
    /\ games = 9 /\ lost = 2
    /\ outcome = "loss"
    /\ prev_stars = 11 /\ current_stars = 11
    /\ InList(current_stars, star_rank_floors)

\* C2: the loop ends after at most 5000 games whatever the outcomes and the
\* inputs are, and the count returned lies in 0..5000.
C2_CapBoundsRun ==
    /\ [](games \in 0..GameCap)
    /\ <>(pc = "done")

C2_Witness == pc = "done" /\ games = GameCap

\* C3: with win rate 0 and the default parameters every game is lost, the
\* stars never rise and the call returns exactly 5000.
C3_AllLossesReturnCap ==
    (win_rate = 0 /\ Defaults /\ pc \in {"loop", "done"}) =>
        /\ outcome # "win"
        /\ wins_in_row = 0
        /\ lost = games
        /\ current_stars <= start_stars
        /\ pc = "done" => games = GameCap

C3_Witness == win_rate = 0 /\ Defaults /\ pc = "done" /\ games = GameCap

\* C4: with win rate 1 and the default parameters every game is won and the
\* call returns one and the same count, below 5000, whatever the draws are.
C4_AllWinsSameCount ==
    (win_rate = 10 /\ Defaults /\ pc \in {"loop", "done"}) =>
        /\ lost = 0
        /\ wins_in_row = games
        /\ pc = "done" => games < GameCap /\ games = 61

C4_Witness == win_rate = 10 /\ Defaults /\ pc = "done" /\ games = 61

\* C5: with win rate 1 and start_stars 0 the count returned is strictly
\* less than the number of keys of the star map.
C5_FewerGamesThanKeys ==
    (win_rate = 10 /\ start_stars = 0 /\ pc = "done") => games < Len(star_map)

C5_Witness ==
    /\ win_rate = 10 /\ start_stars = 0 /\ pc = "done"
    /\ games > 0 /\ current_stars >= legend

\* C6: a loss leaves current_stars unchanged when it equals one of the floor
\* star-counts and takes exactly one star in every other state.
C6_LossExactFloor ==
    [][LossStep =>
          IF InList(current_stars, star_rank_floors)
          THEN current_stars' = current_stars
          ELSE current_stars' = current_stars - 1]_vars

\* from 12 the first loss takes a star (one above the floor 11), the second
\* loss at the floor takes none
C6_Witness ==
    /\ start_stars = 12 /\ rank_floors = DEFAULT_RANK_FLOORS
    /\ games = 2 /\ lost = 2
    /\ prev_stars = 11 /\ current_stars = 11

\* a loss below every floor takes a star
C6_BelowWitness ==
    /\ outcome = "loss"
    /\ \A i \in 1..Len(star_rank_floors) : prev_stars < star_rank_floors[i]
    /\ current_stars = prev_stars - 1

\* C7: a win adds 2 stars exactly when the streak counter after the increment
\* is at least 3 and current_stars before the win is strictly below the
\* streak threshold; every other win adds exactly 1 star.
C7_StreakBonus ==
    [][WinStep =>
          IF wins_in_row' >= 3 /\ current_stars < no_streaks_above
          THEN current_stars' = current_stars + 2
          ELSE current_stars' = current_stars + 1]_vars

\* a run of wins only that started below the threshold (third win: 2 stars)
\* and now wins at or above it with a streak of 3 or more (1 star)
C7_Witness ==
    /\ outcome = "win" /\ lost = 0
    /\ start_stars + 3 < no_streaks_above
    /\ wins_in_row >= 3
    /\ prev_stars >= no_streaks_above
    /\ current_stars = prev_stars + 1

MapBuilt == pc \in {"loop", "done"}

\* number of star-keys mapped to a rank
BandWidth(dict, rank) == Cardinality({i \in 1..Len(dict) : dict[i][2] = rank})

RECURSIVE SumWidths(_, _)
\* sum of the band widths of the ranks 1..r
SumWidths(dict, r) ==
    IF r <= 0 THEN 0 ELSE BandWidth(dict, r) + SumWidths(dict, r - 1)

\* number of star-keys below key k
KeysBefore(dict, k) == Cardinality({x \in KeySet(dict) : x < k})

TerminalKey(dict) == dict[Len(dict)][1]

\* C8 as stated: the band widths are non-decreasing from rank 25 down to
\* rank 1 and the keys before the terminal key number the sum of the widths.
C8_WidthsMonotoneFrom25 ==
    MapBuilt =>
        /\ \A r \in 1..FirstRank - 1 :
               BandWidth(star_map, r + 1) <= BandWidth(star_map, r)
        /\ KeysBefore(star_map, TerminalKey(star_map))
               = SumWidths(star_map, FirstRank)

\* C8 amended: the band widths are non-decreasing from rank 24 down to rank
\* 1, rank 25 holds one key more than rank 24 (key 0 besides its own two),
\* and the keys before the terminal key number the sum of all band widths.
C8_WidthsMonotoneFrom24 ==
    MapBuilt =>
        /\ \A r \in 1..FirstRank - 2 :
               BandWidth(star_map, r + 1) <= BandWidth(star_map, r)
        /\ BandWidth(star_map, FirstRank)
               = BandWidth(star_map, FirstRank - 1) + 1
        /\ KeysBefore(star_map, TerminalKey(star_map))
               = SumWidths(star_map, FirstRank)

C8_Witness ==
    /\ MapBuilt
    /\ BandWidth(star_map, FirstRank) = 3
    /\ BandWidth(star_map, FirstRank - 1) = 2
    /\ BandWidth(star_map, 1) = 5
    /\ SumWidths(star_map, FirstRank) = 96

\* C9: exactly one key maps to the Legend value 0; it is the maximum key and
\* is one greater than the last key mapped to rank 1.
C9_OneLegendKey ==
    MapBuilt =>
        LET legendKeys == {star_map[i][1] : i \in {j \in 1..Len(star_map) :
                                                     star_map[j][2] = 0}}
            rankOneKeys == {star_map[i][1] : i \in {j \in 1..Len(star_map) :
                                                      star_map[j][2] = 1}}
        IN /\ Cardinality(legendKeys) = 1
           /\ BandWidth(star_map, 0) = 1
           /\ \A k \in legendKeys :
                 /\ \A x \in KeySet(star_map) : x <= k
                 /\ k = legend
                 /\ rankOneKeys # {}
                 /\ \A x \in rankOneKeys : x < k
                 /\ k - 1 \in rankOneKeys

C9_Witness ==
    /\ MapBuilt
    /\ legend = 96
    /\ Lookup(star_map, 96) = 0
    /\ Lookup(star_map, 95) = 1

\* C10: the keys are the integers 0..max without gap or duplicate, the rank
\* does not increase as the key increases, and the last key maps to 0.
C10_ContiguousKeys ==
    MapBuilt =>
        /\ KeySet(star_map) = 0..TerminalKey(star_map)
        /\ Cardinality(KeySet(star_map)) = Len(star_map)
        \* the keys lie in increasing order, so neighbours in the sequence
        \* are neighbours in key order
        /\ \A i \in 1..Len(star_map) : star_map[i][1] = i - 1
        /\ \A i \in 1..Len(star_map) - 1 :
               star_map[i][2] >= star_map[i + 1][2]
        /\ star_map[Len(star_map)][2] = 0

C10_Witness ==
    /\ MapBuilt
    /\ Len(star_map) = 97
    /\ Lookup(star_map, 0) = 25
    /\ Lookup(star_map, 2) = 25
    /\ Lookup(star_map, 3) = 24

\* C11: no game is played from a star count at or above the legend key, a
\* count below 5000 is returned only with current_stars at or above the
\* legend key, and the last game counted is the first to reach it.
C11_ReturnsFirstLegendGame ==
    /\ [][games' = games + 1 => current_stars < legend]_vars
    /\ [](pc = "done" /\ games < GameCap => current_stars >= legend)
    /\ [](pc = "done" /\ games > 0 => prev_stars < legend)
    /\ [][pc = "done" => games' = games]_vars

C11_Witness ==
    /\ pc = "done"
    /\ games > 0 /\ games < GameCap
    /\ lost > 0
    /\ prev_stars < legend
    /\ current_stars >= legend

\* C12: simulate(n, ...) makes exactly n runs with the same parameters, each
\* entering the loop with (start_stars, 0, 0) and a map built anew, and
\* returns the sum of the n counts over n, which lies in 0..5000.
C12_MeanOfFreshRuns ==
    /\ [](pc = "averaged" =>
            /\ Len(counts) = n
            /\ run = n
            /\ \A i \in 1..Len(counts) : counts[i] \in 0..GameCap
            /\ average.den = n
            /\ average.num = SeqSum(counts)
            /\ average.num >= 0
            /\ average.num <= GameCap * average.den)
    /\ [][pc = "rank" /\ pc' = "loop" =>
            /\ current_stars' = start_stars
            /\ wins_in_row' = 0
            /\ games' = 0
            /\ star_map' = LegendEntry(d, num_stars)]_vars
    /\ [][pc = "simulate" /\ pc' = "start" => Len(counts) = run /\ run < n]_vars
    /\ [][params' = params /\ n' = n]_vars

\* two runs that returned different counts
C12_Witness ==
    /\ pc = "averaged"
    /\ n = 2
    /\ Len(counts) = 2
    /\ counts[1] # counts[2]
    /\ average.num = counts[1] + counts[2]

\* stars per rank as the comment of build_star_map gives them
StatedWidth(rank) ==
    IF rank >= 21 THEN 2 ELSE IF rank >= 16 THEN 3 ELSE IF rank >= 11 THEN 4 ELSE 5

\* C13 as stated: 2 keys for each of the ranks 25..21, 3 for 20..16, 4 for
\* 15..11 and 5 for 10..1.
C13_WidthsAsStated ==
    MapBuilt =>
        \A r \in 1..FirstRank : BandWidth(star_map, r) = StatedWidth(r)

\* C13 amended: stars_per_rank starts at 2 and rises by 1 exactly at the ranks
\* 20, 15 and 10; rank 25 holds 3 keys (key 0 and its 2 stars), the ranks
\* 24..21 hold 2 keys, 20..16 hold 3, 15..11 hold 4 and 10..1 hold 5.
C13_WidthsWithKeyZero ==
    /\ MapBuilt =>
          /\ BandWidth(star_map, FirstRank) = StatedWidth(FirstRank) + 1
          /\ \A r \in 1..FirstRank - 1 :
                 BandWidth(star_map, r) = StatedWidth(r)
    /\ pc = "fill" => stars_per_rank = StatedWidth(ranks[rank_idx])

C13_Witness ==
    /\ MapBuilt
    /\ BandWidth(star_map, 25) = 3
    /\ BandWidth(star_map, 21) = 2
    /\ BandWidth(star_map, 20) = 3
    /\ BandWidth(star_map, 15) = 4
    /\ BandWidth(star_map, 10) = 5
    /\ BandWidth(star_map, 5) = 5

\* k is the least key of dict mapped to rank
IsLeastKeyOf(dict, k, rank) ==
    /\ \E i \in 1..Len(dict) : dict[i][1] = k /\ dict[i][2] = rank
    /\ \A i \in 1..Len(dict) : dict[i][2] = rank => dict[i][1] >= k

\* C14: every floor rank and the streak rank are resolved to the least key
\* mapped to the rank, legend is the greatest key; the defaults give the
\* floors 0, 11, 26, 46, 71, the threshold 71 and the legend key 96.
C14_ResolvedKeys ==
    MapBuilt =>
        /\ Len(star_rank_floors) = Len(rank_floors)
        /\ \A i \in 1..Len(rank_floors) :
               IsLeastKeyOf(star_map, star_rank_floors[i], rank_floors[i])
        /\ IsLeastKeyOf(star_map, no_streaks_above, no_streaks_above_rank)
        /\ legend \in KeySet(star_map)
        /\ \A k \in KeySet(star_map) : k <= legend
        /\ rank_floors = DEFAULT_RANK_FLOORS
               => star_rank_floors = <<0, 11, 26, 46, 71>>
        /\ no_streaks_above_rank = DEFAULT_NO_STREAKS_ABOVE_RANK
               => no_streaks_above = 71
        /\ legend = 96

C14_Witness ==
    /\ MapBuilt
    /\ Defaults
    /\ star_rank_floors = <<0, 11, 26, 46, 71>>
    /\ no_streaks_above = 71
    /\ legend = 96

\* C15: every pass of the loop adds exactly 1 to games, whatever the game
\* does to the stars, and games is the number of outcomes drawn so far.
C15_EveryGameCounted ==
    /\ [][pc = "loop" /\ pc' = "loop" => games' = games + 1]_vars
    /\ [][won' + lost' = won + lost + 1 => games' = games + 1]_vars
    /\ [](MapBuilt => games = won + lost)

\* a win, a loss that cost the star and a loss taken at the floor 0: 3 games
C15_Witness ==
    /\ pc = "loop"
    /\ Defaults
    /\ won = 1 /\ lost = 2 /\ games = 3
    /\ outcome = "loss"
    /\ prev_stars = 0 /\ current_stars = 0

\* C16: the streak counter is the number of games since the last loss (or
\* since the start): a win adds exactly 1 without any upper reset, a loss
\* sets it to 0, also a loss taken at a floor.
C16_StreakCountsWins ==
    /\ [](MapBuilt => wins_in_row = games - last_loss)
    /\ [][won' = won + 1 => wins_in_row' = wins_in_row + 1]_vars
    /\ [][lost' = lost + 1 => wins_in_row' = 0]_vars

\* a streak of five wins after a loss
C16_Witness ==
    /\ pc = "loop"
    /\ last_loss >= 1
    /\ wins_in_row = 5
    /\ games = last_loss + 5
    /\ outcome = "win"

\* a loss at a floor after a streak
C16_FloorWitness ==
    /\ outcome = "loss"
    /\ InList(prev_stars, star_rank_floors)
    /\ current_stars = prev_stars
    /\ won >= 3
    /\ wins_in_row = 0

\* C17: a game is won only with a draw in [0, 1) below win_rate and lost only
\* with one at or above it; no win rate is refused: one of 1 or more wins
\* every game and runs as 1.0 does, one of 0 or less loses every game and
\* runs as 0.0 does.
C17_LiteralComparison ==
    /\ outcome = "win" => \E draw \in Draws : draw < win_rate
    /\ outcome = "loss" => \E draw \in Draws : ~(draw < win_rate)
    /\ (win_rate >= 10 /\ MapBuilt) =>
          /\ lost = 0
          /\ won = games
          /\ pc = "done" => games = 61 /\ current_stars = legend
    /\ (win_rate <= 0 /\ MapBuilt) =>
          /\ won = 0
          /\ lost = games
          /\ pc = "done" => games = GameCap /\ current_stars = start_stars

\* a win rate of 1.5 ran to Legend
C17_Witness ==
    /\ win_rate = 15
    /\ pc = "done"
    /\ won = 61 /\ lost = 0

\* a win rate of -0.5 ran to the cap
C17_NegativeWitness ==
    /\ win_rate = -5
    /\ pc = "done"
    /\ lost = GameCap /\ won = 0

\* C18: with the default floors and threshold and start_stars in 0..96,
\* current_stars stays in 0..96, and a run that reaches Legend ends with
\* current_stars equal to the legend key.
C18_StarsWithinLadder ==
    (/\ MapBuilt
     /\ rank_floors = DEFAULT_RANK_FLOORS
     /\ no_streaks_above_rank = DEFAULT_NO_STREAKS_ABOVE_RANK
     /\ start_stars \in 0..96) =>
        /\ current_stars \in 0..96
        /\ legend = 96
        /\ current_stars >= legend => current_stars = legend
        /\ (pc = "done" /\ games < GameCap) => current_stars = legend

\* Legend reached by a win on a streak, one star at a time
C18_Witness ==
    /\ pc = "done"
    /\ rank_floors = DEFAULT_RANK_FLOORS
    /\ no_streaks_above_rank = DEFAULT_NO_STREAKS_ABOVE_RANK
    /\ start_stars = 70
    /\ wins_in_row >= 3
    /\ prev_stars = 95 /\ current_stars = 96

\* C19: with the defaults and every game won the stars are 1, 2 after the
\* first two games, then rise by 2 up to 72 (from 70, never 71) at game 37,
\* then by 1 up to 96 at game 61, which is the count returned.
C19_AllWinsPath ==
    (win_rate = 10 /\ Defaults /\ MapBuilt) =>
        /\ games <= 2 => current_stars = games
        /\ (games >= 3 /\ games <= 37) => current_stars = 2 * games - 2
        /\ games >= 37 => current_stars = games + 35
        /\ current_stars # no_streaks_above
        /\ games <= 61
        /\ pc = "done" => games = 61 /\ current_stars = 96

\* the win from 70 to 72
C19_Witness ==
    /\ win_rate = 10 /\ Defaults
    /\ pc = "loop"
    /\ games = 37
    /\ prev_stars = 70 /\ current_stars = 72

BelowEveryFloor(stars) ==
    \A i \in 1..Len(star_rank_floors) : stars < star_rank_floors[i]

\* C20: a start at or above the legend key returns 0 without any game,
\* whatever the win rate; from a start below the lowest floor a run of
\* losses takes one star per game, down to the cap of 5000 games.
C20_EdgeStarts ==
    /\ (MapBuilt /\ start_stars >= legend) =>
          /\ games = 0
          /\ outcome = "none"
          /\ current_stars = start_stars
    /\ (MapBuilt /\ BelowEveryFloor(start_stars) /\ won = 0) =>
          current_stars = start_stars - games
    /\ (pc = "done" /\ BelowEveryFloor(start_stars) /\ win_rate <= 0) =>
          games = GameCap /\ current_stars = start_stars - GameCap

\* 5000 losses from -1
C20_Witness ==
    /\ pc = "done"
    /\ start_stars = -1
    /\ games = GameCap
    /\ current_stars = -5001

\* a start above the legend key returned 0
C20_ZeroWitness ==
    /\ pc = "done"
    /\ start_stars > legend
    /\ win_rate = 5
    /\ games = 0

====
